---- MODULE Spec2Model ----
(***************************************************************************)
(* Model of MyProjFolder/function_app.py: the timer-triggered function     *)
(* sp500_monitor, which reads the last stored S&P 500 price from a blob,   *)
(* fetches the current price, reports the percentage change as a gauge     *)
(* sample, warns on a drop of 2% or more, and overwrites the blob.         *)
(*                                                                         *)
(* Prices are held in tenths (1000 is 100.0).  A percentage change is the  *)
(* exact rational num/den with den > 0, so that -2.0 and -2.5 are          *)
(* represented without rounding.                                           *)
(*                                                                         *)
(* The blob read (exists, download_blob, readall) is one step: nothing in  *)
(* the program deletes the blob, so a read split around another            *)
(* invocation's upload sees what one atomic read before or after that      *)
(* upload sees.  An upload is a single Put Blob: it replaces the whole     *)
(* content or, when it fails, leaves it alone.                             *)
(***************************************************************************)
EXTENDS Integers, Sequences, FiniteSets, TLC

VARIABLES
    store,          \* content of blob sp500-data/last_price.json
    pc,             \* position of each invocation of sp500_monitor
    last_price,     \* local last_price of each invocation
    current_price,  \* local current_price of each invocation
    trace,          \* what each invocation has emitted in its current run
    startStore,     \* store content when the invocation's current run began
    history,        \* outcome of every finished run, in order of finishing
    runs            \* number of runs started

vars == <<store, pc, last_price, current_price, trace, startStore, history, runs>>

MaxRuns == 3

Invocations == {1, 2}

\* closing prices the quote source may return, in tenths
Prices == {975, 980, 990, 1000}

\* percentage_change <= -2.0
Threshold == -2

----------------------------------------------------------------------------
\* Python values of the locals last_price and current_price

Unbound == [kind |-> "unbound", val |-> 0]

PyNum(v) == [kind |-> "num", val |-> v]

\* blob contents
Blob(k, v) == [kind |-> k, val |-> v]

\* slip: the record is written under another key
JsonDumpsWrongKey(price) == Blob("nokey", 0)

\* json.dumps({"last_price": current_price})
JsonDumps(price) == Blob("number", price)

\* contents the blob may hold before the first run
InitialBlobs ==
    { Blob("missing", 0),      \* blob does not exist
      Blob("empty", 0),        \* blob exists, zero bytes
      Blob("badjson", 0),      \* not valid JSON
      Blob("nonobject", 0),    \* valid JSON, not an object: [1], 5, "x", null
      Blob("nokey", 0),        \* {} or {"price": 1}
      Blob("null", 0),         \* {"last_price": null}
      Blob("string", 0),       \* {"last_price": "abc"}
      Blob("bool", 10),        \* {"last_price": true}; True == 1.0
      Blob("number", 0),       \* {"last_price": 0.0}
      Blob("number", -50),     \* {"last_price": -5.0}
      Blob("number", 1000) }   \* {"last_price": 100.0}

\* events of one run: error and warning log lines, gauge samples and upload
\* attempts, in the order the run produced them (info lines are not recorded)
Ev(e) == [ev |-> e, num |-> 0, den |-> 1]

GaugeEv(p) == [ev |-> "gauge", num |-> p.num, den |-> p.den]

UploadEv(price) == [ev |-> "upload", num |-> price, den |-> 1]

Emit(i, evs) == trace' = [trace EXCEPT ![i] = @ \o evs]

\* entry of history for a run that ends
Outcome(i, result, price) ==
    [inv |-> i, result |-> result, price |-> price, pre |-> startStore[i]]

Finish(i, result, price) == history' = Append(history, Outcome(i, result, price))

----------------------------------------------------------------------------
\* Pure parts of sp500_monitor

\* lines 69-74: the value bound to last_price by a read that raises nothing
ParsedLastPrice(blob) ==
    CASE blob.kind = "missing" -> PyNum(0)           \* exists() is False
      [] blob.kind = "empty"   -> PyNum(0)           \* blob_data is falsy
      [] blob.kind = "nokey"   -> PyNum(0)           \* data.get default
      [] blob.kind = "null"    -> [kind |-> "none", val |-> 0]
      [] blob.kind = "string"  -> [kind |-> "str", val |-> 0]
      [] blob.kind = "bool"    -> [kind |-> "bool", val |-> blob.val]
      [] blob.kind = "number"  -> PyNum(blob.val)
      [] OTHER                 -> PyNum(0)

\* json.loads raises on invalid JSON; data.get raises on a non-object
ReadRaises(blob) == blob.kind \in {"badjson", "nonobject"}

\* last_price > 0 raises TypeError for None and str
Comparable(v) == v.kind \in {"num", "bool"}

\* slip: truthiness test instead of > 0
IsNonZero(v) == v.val # 0

IsPositive(v) == v.val > 0

\* slip: change taken relative to the current price
PercentageOfCurrent(current, last) == [num |-> (current - last) * 100, den |-> current]

\* ((current_price - last_price) / last_price) * 100
PercentageChange(current, last) == [num |-> (current - last) * 100, den |-> last]

\* slip: strict comparison with the threshold
IsDropStrict(p) == p.num < Threshold * p.den

\* percentage_change <= -2.0
IsDrop(p) == p.num <= Threshold * p.den

----------------------------------------------------------------------------
Init ==
    /\ store \in InitialBlobs
    /\ pc = [i \in Invocations |-> "idle"]
    /\ last_price = [i \in Invocations |-> Unbound]
    /\ current_price = [i \in Invocations |-> Unbound]
    /\ trace = [i \in Invocations |-> <<>>]
    /\ startStore = [i \in Invocations |-> store]
    /\ history = <<>>
    /\ runs = 0

Resting(i) == pc[i] \in {"idle", "done", "raised"}

\* lines 56-59: the timer trigger fires; the status is logged outside the try.
\* past_due only adds an info line.
TimerFires(i, past_due, has_last) ==
    /\ Resting(i)
    /\ runs < MaxRuns
    /\ runs' = runs + 1
    /\ startStore' = [startStore EXCEPT ![i] = store]
    /\ last_price' = [last_price EXCEPT ![i] = Unbound]
    /\ current_price' = [current_price EXCEPT ![i] = Unbound]
    /\ trace' = [trace EXCEPT ![i] = <<>>]
    /\ IF has_last
       THEN /\ pc' = [pc EXCEPT ![i] = "client"]
            /\ UNCHANGED history
       ELSE \* schedule_status['Last'] raises; nothing catches it
            /\ pc' = [pc EXCEPT ![i] = "raised"]
            /\ history' = Append(history,
                   [inv |-> i, result |-> "raised", price |-> 0, pre |-> store])
    /\ UNCHANGED store

\* line 108-109: the outer except
OuterExcept(i, result) ==
    /\ Emit(i, <<Ev("error")>>)
    /\ pc' = [pc EXCEPT ![i] = "done"]
    /\ Finish(i, result, 0)

\* lines 63-64
CreateClient(i, ok) ==
    /\ pc[i] = "client"
    /\ IF ok
       THEN /\ pc' = [pc EXCEPT ![i] = "read"]
            /\ UNCHANGED <<trace, history>>
       ELSE OuterExcept(i, "client_failed")
    /\ UNCHANGED <<store, last_price, current_price, startStore, runs>>

\* lines 66-76
ReadBlob(i, ok) ==
    /\ pc[i] = "read"
    /\ IF ok /\ ~ReadRaises(store)
       THEN /\ last_price' = [last_price EXCEPT ![i] = ParsedLastPrice(store)]
            /\ UNCHANGED trace
       ELSE /\ last_price' = [last_price EXCEPT ![i] = PyNum(0)]
            /\ Emit(i, <<Ev("read_error")>>)
    /\ pc' = [pc EXCEPT ![i] = "fetch"]
    /\ UNCHANGED <<store, current_price, startStore, history, runs>>

\* slip: a failed fetch is caught next to the fetch, like the read's failure,
\* and the run goes on without a current price
FetchPriceCaughtLocally(i, quote) ==
    /\ pc[i] = "fetch"
    /\ pc' = [pc EXCEPT ![i] = "compare"]
    /\ IF quote \in Prices
       THEN /\ current_price' = [current_price EXCEPT ![i] = PyNum(quote)]
            /\ UNCHANGED trace
       ELSE /\ Emit(i, <<Ev("error")>>)
            /\ UNCHANGED current_price
    /\ UNCHANGED <<store, last_price, startStore, history, runs>>

\* lines 79-85: quote is a price, or 0 when the source has no data or raises
FetchPrice(i, quote) ==
    /\ pc[i] = "fetch"
    /\ IF quote \in Prices
       THEN /\ current_price' = [current_price EXCEPT ![i] = PyNum(quote)]
            /\ pc' = [pc EXCEPT ![i] = "compare"]
            /\ UNCHANGED <<trace, history>>
       ELSE /\ OuterExcept(i, "fetch_failed")
            /\ UNCHANGED current_price
    /\ UNCHANGED <<store, last_price, startStore, runs>>

\* lines 88-98; the gauge's set() records the sample and does not raise
ReportChange(i) ==
    /\ pc[i] = "compare"
    /\ IF ~Comparable(last_price[i])
       THEN OuterExcept(i, "compare_failed")
       ELSE /\ pc' = [pc EXCEPT ![i] = "write"]
            /\ UNCHANGED history
            /\ IF IsPositive(last_price[i])
               THEN LET p == PercentageChange(current_price[i].val, last_price[i].val)
                    IN  Emit(i, <<GaugeEv(p)>>
                    \o (IF IsDrop(p) THEN <<Ev("warning")>> ELSE <<>>))
               ELSE UNCHANGED trace
    /\ UNCHANGED <<store, last_price, current_price, startStore, runs>>

\* slip: a failed upload leaves a truncated blob behind
WriteBlobTruncates(i, ok) ==
    /\ pc[i] = "write"
    /\ pc' = [pc EXCEPT ![i] = "done"]
    /\ IF ok
       THEN /\ store' = JsonDumps(current_price[i].val)
            /\ Emit(i, <<UploadEv(current_price[i].val)>>)
            /\ Finish(i, "stored", current_price[i].val)
       ELSE /\ store' = Blob("empty", 0)
            /\ Emit(i, <<UploadEv(current_price[i].val), Ev("write_error")>>)
            /\ Finish(i, "write_failed", current_price[i].val)
    /\ UNCHANGED <<last_price, current_price, startStore, runs>>

\* slip: the previous price is uploaded instead of the current one
WriteBlobStoresLast(i, ok) ==
    /\ pc[i] = "write"
    /\ pc' = [pc EXCEPT ![i] = "done"]
    /\ IF ok
       THEN /\ store' = JsonDumps(last_price[i].val)
            /\ Emit(i, <<UploadEv(current_price[i].val)>>)
            /\ Finish(i, "stored", current_price[i].val)
       ELSE /\ UNCHANGED store
            /\ Emit(i, <<UploadEv(current_price[i].val), Ev("write_error")>>)
            /\ Finish(i, "write_failed", current_price[i].val)
    /\ UNCHANGED <<last_price, current_price, startStore, runs>>

\* lines 100-105
WriteBlob(i, ok) ==
    /\ pc[i] = "write"
    /\ pc' = [pc EXCEPT ![i] = "done"]
    /\ IF ok
       THEN /\ store' = JsonDumps(current_price[i].val)
            /\ Emit(i, <<UploadEv(current_price[i].val)>>)
            /\ Finish(i, "stored", current_price[i].val)
       ELSE /\ UNCHANGED store
            /\ Emit(i, <<UploadEv(current_price[i].val), Ev("write_error")>>)
            /\ Finish(i, "write_failed", current_price[i].val)
    /\ UNCHANGED <<last_price, current_price, startStore, runs>>

Step(i) ==
    \/ \E ok \in BOOLEAN : CreateClient(i, ok)
    \/ \E ok \in BOOLEAN : ReadBlob(i, ok)
    \/ \E quote \in Prices \cup {0} : FetchPrice(i, quote)
    \/ ReportChange(i)
    \/ \E ok \in BOOLEAN : WriteBlob(i, ok)

\* the schedule as intended: one invocation at a time, run after run
Next ==
    \/ \E past_due, has_last \in BOOLEAN : TimerFires(1, past_due, has_last)
    \/ Step(1)

Spec == Init /\ [][Next]_vars

\* two invocations, each triggered once, may overlap
NextOverlap ==
    \E i \in Invocations :
        \/ \E past_due, has_last \in BOOLEAN : pc[i] = "idle" /\ TimerFires(i, past_due, has_last)
        \/ Step(i)

SpecOverlap == Init /\ [][NextOverlap]_vars

----------------------------------------------------------------------------
\* Observations on a run

Events(i, e) == SelectSeq(trace[i], LAMBDA x : x.ev = e)

Count(i, e) == Len(Events(i, e))

Positions(i, e) == {k \in 1..Len(trace[i]) : trace[i][k].ev = e}

\* the run of invocation i obtained a previous price / a current price
HasRead(i) == last_price[i] # Unbound

HasFetched(i) == current_price[i] # Unbound

\* the run is past lines 88-98
PastReport(i) == pc[i] \in {"write", "done"} /\ HasFetched(i)

\* the run read the store and then found the quote source unreachable
FetchFailed(i) == pc[i] = "done" /\ HasRead(i) /\ ~HasFetched(i)

StoredRuns(h) == {k \in 1..Len(h) : h[k].result = "stored"}

Max(S) == CHOOSE m \in S : \A k \in S : k <= m

\* what the store must hold after the finished runs h, by last successful upload
ExpectedStore(h) ==
    IF StoredRuns(h) = {} THEN h[1].pre
    ELSE [kind |-> "number", val |-> h[Max(StoredRuns(h))].price]

\* the last k finished runs all failed at the quote fetch
FailedTail(k) ==
    /\ k >= 1
    /\ k <= Len(history)
    /\ \A m \in (Len(history) - k + 1)..Len(history) : history[m].result = "fetch_failed"

----------------------------------------------------------------------------
\* C1: a run whose quote fetch fails emits no gauge sample, attempts no upload
\* and logs an error; after any number of consecutive such runs the store is
\* what it was before the first of them.
C1_FetchFailureLeavesStore ==
    /\ \A i \in Invocations :
          FetchFailed(i) =>
              /\ Count(i, "gauge") = 0
              /\ Count(i, "upload") = 0
              /\ Count(i, "error") = 1
              /\ store = startStore[i]
    /\ \A k \in 1..Len(history) :
          (FailedTail(k) /\ Resting(1)) => store = history[Len(history) - k + 1].pre

C1_Witness ==
    /\ Len(history) = 3
    /\ history[1].result = "stored"
    /\ FailedTail(2)
    /\ FetchFailed(1)
    /\ store = [kind |-> "number", val |-> history[1].price]

\* C2: when the previous price is a number <= 0, no gauge sample is emitted and
\* no warning is raised.
C2_NoGaugeWithoutPrevious ==
    \A i \in Invocations :
        (HasRead(i) /\ Comparable(last_price[i]) /\ last_price[i].val <= 0) =>
            /\ Count(i, "gauge") = 0
            /\ Count(i, "warning") = 0

C2_Witness ==
    /\ pc[1] = "done"
    /\ startStore[1] = [kind |-> "number", val |-> -50]
    /\ last_price[1] = [kind |-> "num", val |-> -50]
    /\ HasFetched(1)
    /\ Count(1, "upload") = 1

\* C3 as claimed: every run that obtained a current price attempts exactly one
\* upload of that price, whatever the previous price was, and a successful
\* upload leaves exactly that price in the store.
C3_AsClaimed ==
    \A i \in Invocations :
        (pc[i] = "done" /\ HasFetched(i)) =>
            /\ Count(i, "upload") = 1
            /\ Events(i, "upload")[1].num = current_price[i].val
            /\ Count(i, "write_error") = 0 =>
                  store = [kind |-> "number", val |-> current_price[i].val]

\* C4 as claimed: on a missing record, a malformed payload or an access error
\* the run uses 0.0 as the previous price and still persists the price it
\* fetches.
MalformedOrMissing(blob) == ~(blob.kind = "number")

C4_AsClaimed ==
    \A i \in Invocations :
        (pc[i] = "done" /\ HasRead(i) /\ HasFetched(i)
           /\ (MalformedOrMissing(startStore[i]) \/ Count(i, "read_error") > 0)) =>
            /\ last_price[i] = [kind |-> "num", val |-> 0]
            /\ Count(i, "upload") = 1
            /\ Count(i, "error") = 0

\* C5: with a previous price > 0 and a fetched current price, exactly one gauge
\* sample is emitted and it equals (current - previous) / previous * 100, the
\* previous price being what the store held when the run started.
C5_GaugeValue ==
    \A i \in Invocations :
        (PastReport(i) /\ last_price[i].kind = "num" /\ last_price[i].val > 0) =>
            /\ startStore[i].kind = "number"
            /\ Count(i, "gauge") = 1
            /\ LET g == Events(i, "gauge")[1]
                   prev == startStore[i].val
                   cur == current_price[i].val
               IN  /\ g.den > 0
                   /\ g.num * prev = (cur - prev) * 100 * g.den
                   /\ (prev = 1000 /\ cur = 975) => 2 * g.num = -5 * g.den
                   /\ (prev = 1000 /\ cur = 990) => g.num = -1 * g.den

C5_Witness ==
    /\ pc[1] = "done"
    /\ startStore[1] = [kind |-> "number", val |-> 1000]
    /\ current_price[1] = [kind |-> "num", val |-> 975]
    /\ Count(1, "gauge") = 1
    /\ 2 * Events(1, "gauge")[1].num = -5 * Events(1, "gauge")[1].den

\* C6: the warning is raised exactly when a percentage change was computed and
\* it is <= -2.0; never without a gauge sample.
C6_WarningIffDrop ==
    \A i \in Invocations :
        /\ Count(i, "warning") <= Count(i, "gauge")
        /\ Count(i, "warning") <= 1
        /\ PastReport(i) =>
              (Count(i, "warning") = 1 <=>
                  /\ Comparable(last_price[i])
                  /\ last_price[i].val > 0
                  /\ (current_price[i].val - last_price[i].val) * 100
                        <= -2 * last_price[i].val)
        /\ (pc[i] = "done" /\ ~HasFetched(i)) => Count(i, "warning") = 0

C6_Witness ==
    /\ pc[1] = "done"
    /\ last_price[1] = [kind |-> "num", val |-> 1000]
    /\ current_price[1] = [kind |-> "num", val |-> 980]
    /\ Count(1, "warning") = 1
    /\ Count(1, "gauge") = 1

\* C7: when the upload fails, the gauge sample and the warning due in that run
\* were emitted before the upload was attempted, the failure is logged, the
\* run returns normally and the store keeps its pre-run content.
C7_WriteFailureAfterReport ==
    (Resting(1) /\ Len(history) > 0 /\ history[Len(history)].result = "write_failed") =>
        /\ pc[1] = "done"
        /\ Count(1, "write_error") = 1
        /\ Count(1, "error") = 0
        /\ Count(1, "upload") = 1
        /\ \A k \in Positions(1, "gauge") \cup Positions(1, "warning") :
              \A u \in Positions(1, "upload") : k < u
        /\ (startStore[1].kind = "number" /\ startStore[1].val > 0
              /\ Count(1, "read_error") = 0) => Count(1, "gauge") = 1
        /\ store = startStore[1]

C7_Witness ==
    /\ Resting(1)
    /\ Len(history) > 0
    /\ history[Len(history)].result = "write_failed"
    /\ startStore[1] = [kind |-> "number", val |-> 1000]
    /\ Count(1, "gauge") = 1
    /\ Count(1, "warning") = 1
    /\ store = [kind |-> "number", val |-> 1000]

\* C8 as claimed: no failure at any step, the timer-status logging included,
\* propagates out of sp500_monitor; it is caught and logged.
C8_AsClaimed ==
    \A i \in Invocations :
        /\ pc[i] # "raised"
        /\ (pc[i] = "done" /\ Count(i, "upload") = 0) => Count(i, "error") = 1

\* C9: overlapping invocations are last-writer-wins: the store holds exactly
\* the payload of the upload that happened last, never a mix of the two.
C9_LastWriterWins ==
    /\ store \in InitialBlobs \cup {[kind |-> "number", val |-> p] : p \in Prices}
    /\ Len(history) > 0 => store = ExpectedStore(history)
    /\ (\A i \in Invocations : pc[i] = "done" /\ Count(i, "upload") = 1
                                  /\ Count(i, "write_error") = 0) =>
          store = [kind |-> "number",
                   val |-> current_price[history[Len(history)].inv].val]

\* both invocations read 100.0 before either uploaded, each emitted its own
\* gauge sample against it, and the later upload is what the store holds
C9_Witness ==
    /\ \A i \in Invocations :
          /\ pc[i] = "done"
          /\ last_price[i] = [kind |-> "num", val |-> 1000]
          /\ Count(i, "gauge") = 1
          /\ Count(i, "write_error") = 0
          /\ Count(i, "upload") = 1
    /\ current_price[1].val = 975
    /\ current_price[2].val = 990
    /\ history[Len(history)].inv = 1
    /\ store = [kind |-> "number", val |-> 975]

\* C10: over runs that do not overlap, the store holds its initial content or
\* the price of the most recent run whose fetch and upload both succeeded, and
\* a run whose read succeeds compares against that price.
C10_StoreIsLastGoodRun ==
    /\ Len(history) > 0 => store = ExpectedStore(history)
    /\ (pc[1] \in {"fetch", "compare", "write"} /\ Count(1, "read_error") = 0
          /\ StoredRuns(history) # {}) =>
          last_price[1] = [kind |-> "num", val |-> history[Max(StoredRuns(history))].price]

C10_Witness ==
    /\ Len(history) = 2
    /\ history[1].result = "stored"
    /\ history[2].result = "write_failed"
    /\ history[2].price # history[1].price
    /\ pc[1] = "write"
    /\ Count(1, "read_error") = 0
    /\ last_price[1] = [kind |-> "num", val |-> history[1].price]

====
